---- MODULE Spec2Model ----
(***************************************************************************)
(* Typhoon and earthquake monitoring bot: the decision logic of main.py.  *)
(* Persisted slots are the JSON files under data/; one invocation of      *)
(* main() is one step.  Times are whole hours PHT; ETAs are tenths of an  *)
(* hour (the code rounds eta_hours to one decimal).                        *)
(***************************************************************************)
EXTENDS Integers, Sequences, FiniteSets, TLC

VARIABLES now, threatFile, cacheFile, archiveFile, statusFile, eqCacheFile,
          run, lastFull, appended, statusTimes, calc

vars == <<now, threatFile, cacheFile, archiveFile, statusFile, eqCacheFile,
          run, lastFull, appended, statusTimes, calc>>

----------------------------------------------------------------------------
(* Python values *)

\* Python's None, for optional numbers and tokens.
None == -1

\* bool(x) of an optional number: None, 0 and 0.0 are falsy.
Truthy(x) == x # None /\ x # 0

Abs(x) == IF x < 0 THEN -x ELSE x

Min(a, b) == IF a < b THEN a ELSE b

\* d.get(k, default) on a dict modelled as a function.
DictGet(d, k, default) == IF k \in DOMAIN d THEN d[k] ELSE default

\* The installations, in the iteration order of the PORTS dict.
PORTS == <<"SBITC", "MICT", "Bauan", "VCT", "MICTSI">>

PortSet == {PORTS[i] : i \in 1..Len(PORTS)}

\* The status of a port absent from a port_status dict: {} (every .get is None).
EmptyStatus == [tcws |-> None, eta_hours |-> None]

----------------------------------------------------------------------------
(* Persisted slots.  A file is missing, holds JSON, or cannot be parsed. *)

Missing == [kind |-> "missing"]

Corrupt == [kind |-> "corrupt"]

Json(d) == [kind |-> "json", data |-> d]

\* What save_threat_status writes (last_check is never read back).
ThreatRecord(has_threat) == [has_elevated_threat |-> has_threat]

\* A JSON object lacking the has_elevated_threat key.
NoKeyRecord == [last_check |-> 0]

----------------------------------------------------------------------------
(* check_threat_level *)

check_threat_level_from3(port_status) ==
    \E p \in DOMAIN port_status :
        Truthy(port_status[p].tcws) /\ port_status[p].tcws >= 3

check_threat_level(port_status) ==
    \E p \in DOMAIN port_status :
        Truthy(port_status[p].tcws) /\ port_status[p].tcws >= 2

----------------------------------------------------------------------------
(* should_skip_run *)

\* (os.getenv("FORCE_STATUS_REPORT") or "false").lower() == "true"
ForceEnv == {"unset", "", "true", "TRUE", "True", "false", "1"}

Lower(s) == IF s \in {"TRUE", "True"} THEN "true" ELSE s

force_status(env) == Lower(IF env \in {"unset", ""} THEN "false" ELSE env) = "true"

HourOf(t) == t % 24

\* threat_data.get('has_elevated_threat', False) of the parsed file.
has_threat_of(file) ==
    IF "has_elevated_threat" \in DOMAIN file.data
    THEN file.data.has_elevated_threat
    ELSE FALSE

should_skip_run_ignoring_flag(env, t, file) ==
    IF force_status(env) THEN FALSE
    ELSE IF HourOf(t) % 2 = 0 THEN FALSE
    ELSE TRUE

should_skip_run(env, t, file) ==
    IF force_status(env) THEN FALSE
    ELSE IF HourOf(t) % 2 = 0 THEN FALSE
    ELSE IF file.kind = "missing" THEN TRUE
    ELSE IF file.kind = "corrupt" THEN TRUE
    ELSE IF has_threat_of(file) THEN FALSE
    ELSE TRUE

----------------------------------------------------------------------------
(* load_cache, save_cache, should_send_alert *)

\* The empty dict {} that load_cache returns when there is no cache file.
EmptyDict == [k \in {} |-> None]

\* json.load of a slot; a file that cannot be parsed raises.
load_raises(file) == file.kind = "corrupt"

load_cache(file) == IF file.kind = "json" THEN file.data ELSE EmptyDict

\* Lower ETAs a (tenths of an hour) for which the float subtraction
\* (a + 3.0) - a exceeds 3, e.g. 4.4 - 1.4 = 3.0000000000000004.
EtaRoundsAbove3 ==
    {14, 19, 24, 29, 34, 39, 53, 58, 63, 68, 73, 78, 131, 136, 141, 146,
     151, 156, 292, 297, 302, 307, 312, 317, 614, 619, 624, 629, 634, 639}

\* abs(current_eta - cached_eta) > 3 on floats holding one-decimal values.
eta_changed(current_eta, cached_eta) ==
    \/ Abs(current_eta - cached_eta) > 30
    \/ /\ Abs(current_eta - cached_eta) = 30
       /\ Min(current_eta, cached_eta) \in EtaRoundsAbove3

RECURSIVE port_loop_no_tcws(_, _, _)
port_loop_no_tcws(i, current_ports, cached_ports) ==
    IF i > Len(PORTS) THEN FALSE
    ELSE LET current == DictGet(current_ports, PORTS[i], EmptyStatus)
             cached == DictGet(cached_ports, PORTS[i], EmptyStatus)
         IN  IF /\ Truthy(current.eta_hours) /\ Truthy(cached.eta_hours)
                /\ eta_changed(current.eta_hours, cached.eta_hours)
             THEN TRUE
             ELSE port_loop_no_tcws(i + 1, current_ports, cached_ports)

\* The loop over PORTS.keys() of should_send_alert, from index i on.
RECURSIVE port_loop(_, _, _)
port_loop(i, current_ports, cached_ports) ==
    IF i > Len(PORTS) THEN FALSE
    ELSE LET current == DictGet(current_ports, PORTS[i], EmptyStatus)
             cached == DictGet(cached_ports, PORTS[i], EmptyStatus)
         IN  IF current.tcws # cached.tcws THEN TRUE
             ELSE IF /\ Truthy(current.eta_hours) /\ Truthy(cached.eta_hours)
                     /\ eta_changed(current.eta_hours, cached.eta_hours)
             THEN TRUE
             ELSE port_loop(i + 1, current_ports, cached_ports)

changed_since(current_bulletin, cached_bulletin) ==
    IF current_bulletin.bulletin_time
           # DictGet(cached_bulletin, "bulletin_time", None)
    THEN TRUE
    ELSE port_loop(1, current_bulletin.port_status,
                   DictGet(cached_bulletin, "port_status", EmptyDict))

should_send_alert_needs_change(current_bulletin, cached_bulletin) ==
    IF DOMAIN cached_bulletin = {} THEN FALSE
    ELSE changed_since(current_bulletin, cached_bulletin)

should_send_alert_always(current_bulletin, cached_bulletin) == TRUE

should_send_alert(current_bulletin, cached_bulletin) ==
    IF DOMAIN cached_bulletin = {} THEN TRUE
    ELSE changed_since(current_bulletin, cached_bulletin)

----------------------------------------------------------------------------
(* archive_bulletin *)

ARCHIVE_LIMIT == 100

\* s[:n]
FirstN(s, n) == IF Len(s) > n THEN SubSeq(s, 1, n) ELSE s

\* s[-n:]
LastN(s, n) == IF Len(s) > n THEN SubSeq(s, Len(s) - n + 1, Len(s)) ELSE s

ArchiveEntry(t, bulletin_data) == [timestamp |-> t, data |-> bulletin_data]

load_archive(file) == IF file.kind = "json" THEN file.data ELSE << >>

archive_bulletin_keep_oldest(file, t, bulletin_data) ==
    Json(FirstN(Append(load_archive(file), ArchiveEntry(t, bulletin_data)),
                ARCHIVE_LIMIT))

\* The file archive_bulletin leaves behind when json.load does not raise.
archive_bulletin(file, t, bulletin_data) ==
    Json(LastN(Append(load_archive(file), ArchiveEntry(t, bulletin_data)),
               ARCHIVE_LIMIT))

----------------------------------------------------------------------------
(* should_send_status_update, save_status_update *)

DateOf(t) == t \div 24

should_send_status_update_no_fallback(t, file) ==
    IF file.kind = "missing" THEN TRUE
    ELSE IF file.kind = "corrupt" THEN TRUE
    ELSE LET last_update == DictGet(file.data, "last_update", None)
         IN  IF last_update = None THEN TRUE
             ELSE IF /\ HourOf(t) >= 7 /\ HourOf(t) < 19
                     /\ (DateOf(last_update) < DateOf(t) \/ HourOf(last_update) < 7)
             THEN TRUE
             ELSE IF /\ HourOf(t) >= 19
                     /\ (HourOf(last_update) < 19 \/ DateOf(last_update) < DateOf(t))
             THEN TRUE
             ELSE FALSE

should_send_status_update(t, file) ==
    IF file.kind = "missing" THEN TRUE
    ELSE IF file.kind = "corrupt" THEN TRUE
    ELSE LET last_update == DictGet(file.data, "last_update", None)
         IN  IF last_update = None THEN TRUE
             ELSE IF t - last_update >= 12 THEN TRUE
             ELSE IF /\ HourOf(t) >= 7 /\ HourOf(t) < 19
                     /\ (DateOf(last_update) < DateOf(t) \/ HourOf(last_update) < 7)
             THEN TRUE
             ELSE IF /\ HourOf(t) >= 19
                     /\ (HourOf(last_update) < 19 \/ DateOf(last_update) < DateOf(t))
             THEN TRUE
             ELSE FALSE

save_status_update(t) == Json([last_update |-> t])

----------------------------------------------------------------------------
(* Earthquakes: magnitudes are tenths. *)

\* Lower magnitudes m (tenths) for which the float subtraction (m + 0.2) - m
\* exceeds 0.2, e.g. 4.2 - 4.0 = 0.20000000000000018.
MagRoundsAbove02 ==
    {14, 19, 20, 23, 24, 25, 28, 29, 30, 33, 34, 35, 38, 40, 41, 42, 43, 45,
     46, 47, 48, 50, 51, 52, 53, 55, 56, 57, 58, 60, 61, 62, 63, 65, 66, 67,
     68, 70, 71, 72, 73, 75, 76, 77, 78, 81, 82, 86, 87, 91, 92, 96, 97}

\* abs(current_mag - cached_mag) > 0.2 on floats holding one-decimal values.
mag_changed(current_mag, cached_mag) ==
    \/ Abs(current_mag - cached_mag) > 2
    \/ /\ Abs(current_mag - cached_mag) = 2
       /\ Min(current_mag, cached_mag) \in MagRoundsAbove02

should_send_earthquake_alert(current_eq, cached_eq) ==
    IF DOMAIN cached_eq = {} THEN TRUE
    ELSE IF current_eq.datetime_str # DictGet(cached_eq, "datetime_str", None)
    THEN TRUE
    ELSE IF current_eq.location # DictGet(cached_eq, "location", None)
    THEN TRUE
    ELSE mag_changed(current_eq.magnitude, DictGet(cached_eq, "magnitude", 0))

\* eq.get('magnitude', 0) >= 3.8
SIGNIFICANT_TENTHS == 38

first_significant_any_magnitude(all_earthquakes, i) ==
    IF i > Len(all_earthquakes) THEN 0 ELSE i

\* The first event of the feed with magnitude >= 3.8, as an index; 0 if none.
RECURSIVE first_significant(_, _)
first_significant(all_earthquakes, i) ==
    IF i > Len(all_earthquakes) THEN 0
    ELSE IF all_earthquakes[i].magnitude >= SIGNIFICANT_TENTHS THEN i
    ELSE first_significant(all_earthquakes, i + 1)

\* TelegramNotifier defines no send_earthquake_alert: the call in main raises
\* AttributeError, which the earthquake section's except clause swallows.
notifier_has_send_earthquake_alert == FALSE

----------------------------------------------------------------------------
(* Readings.  calculate_all_ports turns a PAGASA reading into one status  *)
(* per installation; a reading is modelled by its bulletin_time and that  *)
(* port_status.                                                            *)

Status(tcws, eta_hours) == [tcws |-> tcws, eta_hours |-> eta_hours]

PortStatus(sbitc, mict) ==
    [p \in PortSet |-> IF p = "SBITC" THEN sbitc
                       ELSE IF p = "MICT" THEN mict
                       ELSE EmptyStatus]

Bulletin(bulletin_time, port_status) ==
    [bulletin_time |-> bulletin_time, port_status |-> port_status]

NullBulletin == Bulletin(None, PortStatus(EmptyStatus, EmptyStatus))

\* fetch_latest_bulletin returned None (no system, or the fetch failed).
NoReading == [present |-> FALSE, bulletin |-> NullBulletin]

Reading(b) == [present |-> TRUE, bulletin |-> b]

\* No event: latest_significant = None.
NoQuake == [datetime_str |-> None, location |-> "", magnitude |-> None]

\* The readings the cycles of Spec draw from: two bulletins of one issue whose
\* ETAs are 2 hours apart, an escalation to signal 2, and its de-escalation.
MainBulletins ==
    {Bulletin(1, PortStatus(Status(1, 100), EmptyStatus)),
     Bulletin(1, PortStatus(Status(1, 120), EmptyStatus)),
     Bulletin(2, PortStatus(Status(2, 50), Status(1, None))),
     Bulletin(2, PortStatus(Status(1, 50), Status(1, None)))}

MainReadings == {NoReading} \cup {Reading(b) : b \in MainBulletins}

MainEnv == {"unset", "true"}

Quake(datetime_str, location, magnitude) ==
    [datetime_str |-> datetime_str, location |-> location, magnitude |-> magnitude]

\* PHIVOLCS feeds, most recent event first; << >> is a failed fetch.
EqFeeds == {<< >>, <<Quake(2, "Batangas", 30), Quake(1, "Batangas", 40)>>}

----------------------------------------------------------------------------
(* main *)

\* Appends to the archive a behaviour of Spec may make.
MaxArchived == 2

\* Hours a behaviour of Spec may last.
MaxNow == 2

\* What the last invocation did (nothing yet).
NoRun ==
    [outcome |-> "none", hour |-> None, force |-> FALSE, has_reading |-> FALSE,
     bulletin_data |-> NullBulletin, has_elevated_threat |-> FALSE,
     alert |-> "none", status_sent |-> FALSE, eq |-> "none",
     feed |-> << >>, quake |-> NoQuake, delivered |-> FALSE]

\* What the last call into the threat calculator was (none yet).
NoCalc == [called |-> "none"]

cleared_threat_set == Json(ThreatRecord(TRUE))

cleared_threat_kept == threatFile

\* Line 307: save_threat_status(False) when there is no bulletin.
cleared_threat == Json(ThreatRecord(FALSE))

cache_when_quiet_saves(bulletin_data) == Json(bulletin_data)

\* Lines 386-387: without an alert the cache file is not touched.
cache_when_quiet(bulletin_data) == cacheFile

status_with_bulletin_orthogonal(env) ==
    LET send == should_send_status_update(now, statusFile) \/ force_status(env)
    IN  [status |-> IF send THEN save_status_update(now) ELSE statusFile,
         status_sent |-> send]

\* Lines 324-387: the branch taken with a bulletin holds no status code; the
\* status decision of lines 316-322 sits in the branch without a bulletin.
status_with_bulletin(env) == [status |-> statusFile, status_sent |-> FALSE]

cache_after_send_if_delivered(bulletin_data, delivered) ==
    IF delivered THEN Json(bulletin_data) ELSE cacheFile

\* Lines 379-380: send_alert's return value (False when delivery failed) is
\* dropped and save_cache follows.
cache_after_send(bulletin_data, delivered) == Json(bulletin_data)

\* Lines 299-387: what the typhoon section leaves behind.  raised: an
\* exception left the section (it reaches the outer except and is re-raised).
typhoon_section(env, pagasa_data, delivered) ==
    IF ~pagasa_data.present
    THEN LET send == should_send_status_update(now, statusFile) \/ force_status(env)
         IN  [threat |-> cleared_threat,
              cache |-> cacheFile, archive |-> archiveFile,
              status |-> IF send THEN save_status_update(now) ELSE statusFile,
              archived |-> appended,
              alert |-> "none", status_sent |-> send, raised |-> FALSE]
    ELSE LET bulletin_data == pagasa_data.bulletin
             has_elevated_threat == check_threat_level(bulletin_data.port_status)
             threat == Json(ThreatRecord(has_elevated_threat))
         IN  IF load_raises(cacheFile)
             THEN [threat |-> threat, cache |-> cacheFile, archive |-> archiveFile,
                   status |-> statusFile, archived |-> appended,
                   alert |-> "none", status_sent |-> FALSE, raised |-> TRUE]
             ELSE IF ~should_send_alert(bulletin_data, load_cache(cacheFile))
             THEN [threat |-> threat, cache |-> cache_when_quiet(bulletin_data),
                   archive |-> archiveFile,
                   status |-> status_with_bulletin(env).status,
                   archived |-> appended,
                   alert |-> "no",
                   status_sent |-> status_with_bulletin(env).status_sent,
                   raised |-> FALSE]
             ELSE IF load_raises(archiveFile)
             THEN [threat |-> threat,
                   cache |-> cache_after_send(bulletin_data, delivered),
                   archive |-> archiveFile,
                   status |-> statusFile, archived |-> appended,
                   alert |-> "yes", status_sent |-> FALSE, raised |-> TRUE]
             ELSE [threat |-> threat,
                   cache |-> cache_after_send(bulletin_data, delivered),
                   archive |-> archive_bulletin(archiveFile, now, bulletin_data),
                   status |-> status_with_bulletin(env).status,
                   archived |-> Append(appended, ArchiveEntry(now, bulletin_data)),
                   alert |-> "yes",
                   status_sent |-> status_with_bulletin(env).status_sent,
                   raised |-> FALSE]

\* Lines 397-442: the earthquake section; its except clause swallows everything.
earthquake_section(all_earthquakes) ==
    LET i == first_significant(all_earthquakes, 1)
    IN  IF Len(all_earthquakes) = 0 \/ i = 0
        THEN [cache |-> eqCacheFile, eq |-> "none", quake |-> NoQuake]
        ELSE IF load_raises(eqCacheFile)
        THEN [cache |-> eqCacheFile, eq |-> "load_failed",
              quake |-> all_earthquakes[i]]
        ELSE IF ~should_send_earthquake_alert(all_earthquakes[i],
                                              load_cache(eqCacheFile))
        THEN [cache |-> eqCacheFile, eq |-> "already",
              quake |-> all_earthquakes[i]]
        ELSE IF ~notifier_has_send_earthquake_alert
        THEN [cache |-> eqCacheFile, eq |-> "send_failed",
              quake |-> all_earthquakes[i]]
        ELSE [cache |-> Json(all_earthquakes[i]), eq |-> "sent",
              quake |-> all_earthquakes[i]]

\* Lines 447-454: the outer except; the earthquake section is never entered.
earthquake_section_not_reached ==
    [cache |-> eqCacheFile, eq |-> "none", quake |-> NoQuake]

skip_decision_after_fetch(env, pagasa_data) ==
    should_skip_run(env, now,
        Json(ThreatRecord(pagasa_data.present
                          /\ check_threat_level(pagasa_data.bulletin.port_status))))

\* Line 273: the skip decision of this invocation.
skip_decision(env, pagasa_data) == should_skip_run(env, now, threatFile)

skipped_run_clears_flag ==
    [threat |-> Json(ThreatRecord(FALSE)), cache |-> cacheFile,
     archive |-> archiveFile, status |-> statusFile, eq |-> eqCacheFile]

\* Lines 273-275: a skipped invocation returns before it fetches or writes.
skipped_run ==
    [threat |-> threatFile, cache |-> cacheFile, archive |-> archiveFile,
     status |-> statusFile, eq |-> eqCacheFile]

main(env, pagasa_data, all_earthquakes, delivered) ==
    /\ Len(appended) < MaxArchived
    /\ IF skip_decision(env, pagasa_data)
       THEN /\ run' = [NoRun EXCEPT !.outcome = "skipped",
                                    !.hour = HourOf(now),
                                    !.force = force_status(env)]
            /\ threatFile' = skipped_run.threat
            /\ cacheFile' = skipped_run.cache
            /\ archiveFile' = skipped_run.archive
            /\ statusFile' = skipped_run.status
            /\ eqCacheFile' = skipped_run.eq
            /\ UNCHANGED <<now, lastFull, appended, statusTimes, calc>>
       ELSE \E w \in {typhoon_section(env, pagasa_data, delivered)} :
            \E e \in {IF w.raised THEN earthquake_section_not_reached
                      ELSE earthquake_section(all_earthquakes)} :
                /\ threatFile' = w.threat
                /\ cacheFile' = w.cache
                /\ archiveFile' = w.archive
                /\ statusFile' = w.status
                /\ appended' = w.archived
                /\ eqCacheFile' = e.cache
                /\ run' = [outcome |-> IF w.raised THEN "failed" ELSE "full",
                           hour |-> HourOf(now),
                           force |-> force_status(env),
                           has_reading |-> pagasa_data.present,
                           bulletin_data |-> pagasa_data.bulletin,
                           has_elevated_threat |->
                               check_threat_level(pagasa_data.bulletin.port_status),
                           alert |-> w.alert, status_sent |-> w.status_sent,
                           eq |-> e.eq, feed |-> all_earthquakes,
                           quake |-> e.quake,
                           delivered |-> (w.alert = "yes" /\ delivered)]
                /\ statusTimes' = IF w.status_sent THEN statusTimes \cup {now}
                                  ELSE statusTimes
                /\ lastFull' = [happened |-> TRUE,
                                has_reading |-> pagasa_data.present,
                                port_status |-> pagasa_data.bulletin.port_status]
                /\ UNCHANGED <<now, calc>>

\* The scheduler's clock: an hour passes between invocations.
Tick ==
    /\ now < MaxNow
    /\ now' = now + 1
    /\ UNCHANGED <<threatFile, cacheFile, archiveFile, statusFile, eqCacheFile,
                   run, lastFull, appended, statusTimes, calc>>

\* A fresh deployment: no file under data/ exists yet.
Init ==
    /\ now = 0
    /\ threatFile = Missing
    /\ cacheFile = Missing
    /\ archiveFile = Missing
    /\ statusFile = Missing
    /\ eqCacheFile = Missing
    /\ run = NoRun
    /\ lastFull = [happened |-> FALSE, has_reading |-> FALSE,
                   port_status |-> NullBulletin.port_status]
    /\ appended = << >>
    /\ statusTimes = {}
    /\ calc = NoCalc

Cycle ==
    \E env \in MainEnv, pagasa_data \in MainReadings, all_earthquakes \in EqFeeds :
        main(env, pagasa_data, all_earthquakes, TRUE)

Next == Cycle \/ Tick

Spec == Init /\ [][Next]_vars

----------------------------------------------------------------------------
(* should_skip_run alone, for every hour and every content of the threat  *)
(* file.                                                                   *)

ThreatFiles ==
    {Missing, Corrupt, Json(NoKeyRecord),
     Json(ThreatRecord(TRUE)), Json(ThreatRecord(FALSE))}

InitSkip ==
    /\ now \in 0..23
    /\ threatFile \in ThreatFiles
    /\ cacheFile = Missing
    /\ archiveFile = Missing
    /\ statusFile = Missing
    /\ eqCacheFile = Missing
    /\ run = NoRun
    /\ lastFull = [happened |-> FALSE, has_reading |-> FALSE,
                   port_status |-> NullBulletin.port_status]
    /\ appended = << >>
    /\ statusTimes = {}
    /\ calc = NoCalc

SkipDecision ==
    /\ run.outcome = "none"
    /\ \E env \in ForceEnv :
          run' = [NoRun EXCEPT
                    !.outcome = IF should_skip_run(env, now, threatFile)
                                THEN "skipped" ELSE "proceed",
                    !.hour = HourOf(now),
                    !.force = (env \in {"true", "TRUE", "True"})]
    /\ UNCHANGED <<now, threatFile, cacheFile, archiveFile, statusFile,
                   eqCacheFile, lastFull, appended, statusTimes, calc>>

SpecSkip == InitSkip /\ [][SkipDecision]_vars

----------------------------------------------------------------------------
(* should_send_alert and check_threat_level alone, for every pair of a    *)
(* current bulletin and a cache.                                           *)

AlertBulletins ==
    {Bulletin(t, PortStatus(Status(tcws1, eta1), Status(tcws2, eta2))) :
        t \in {1, 2},
        tcws1 \in {None} \cup (1..5), eta1 \in {None, 0, 14, 44, 50},
        tcws2 \in {None, 2}, eta2 \in {None, 41}}

InitAlert ==
    /\ now = 0
    /\ threatFile = Missing
    /\ cacheFile \in {Missing} \cup {Json(b) : b \in AlertBulletins}
    /\ archiveFile = Missing
    /\ statusFile = Missing
    /\ eqCacheFile = Missing
    /\ run = NoRun
    /\ lastFull = [happened |-> FALSE, has_reading |-> FALSE,
                   port_status |-> NullBulletin.port_status]
    /\ appended = << >>
    /\ statusTimes = {}
    /\ calc = NoCalc

\* Lines 368 and 375-377 on one bulletin: the two decisions, nothing saved.
AlertDecision ==
    /\ run.outcome = "none"
    /\ \E bulletin_data \in AlertBulletins :
          run' = [NoRun EXCEPT
                    !.outcome = "decided",
                    !.has_reading = TRUE,
                    !.bulletin_data = bulletin_data,
                    !.has_elevated_threat =
                        check_threat_level(bulletin_data.port_status),
                    !.alert = IF should_send_alert(bulletin_data,
                                                   load_cache(cacheFile))
                              THEN "yes" ELSE "no"]
    /\ UNCHANGED <<now, threatFile, cacheFile, archiveFile, statusFile,
                   eqCacheFile, lastFull, appended, statusTimes, calc>>

SpecAlert == InitAlert /\ [][AlertDecision]_vars

----------------------------------------------------------------------------
(* archive_bulletin alone, on archives around the limit.                   *)

\* How far below the limit an archive of SpecArchive starts.
MaxBelow == 2

\* Appends past the limit a behaviour of SpecArchive may make.
MaxOverflow == 2

\* An archive of n entries, one per hour, from alternating bulletins.
Prefilled(n) ==
    [i \in 1..n |->
        ArchiveEntry(i - 1,
            IF i % 2 = 0
            THEN Bulletin(1, PortStatus(Status(1, 100), EmptyStatus))
            ELSE Bulletin(2, PortStatus(Status(2, 50), Status(1, None))))]

InitArchive ==
    /\ \E n \in (ARCHIVE_LIMIT - MaxBelow)..ARCHIVE_LIMIT :
          /\ now = n
          /\ archiveFile = Json(Prefilled(n))
          /\ appended = Prefilled(n)
    /\ threatFile = Missing
    /\ cacheFile = Missing
    /\ statusFile = Missing
    /\ eqCacheFile = Missing
    /\ run = NoRun
    /\ lastFull = [happened |-> FALSE, has_reading |-> FALSE,
                   port_status |-> NullBulletin.port_status]
    /\ statusTimes = {}
    /\ calc = NoCalc

ArchiveAppend ==
    /\ Len(appended) < ARCHIVE_LIMIT + MaxOverflow
    /\ \E bulletin_data \in MainBulletins :
          /\ archiveFile' = archive_bulletin(archiveFile, now, bulletin_data)
          /\ appended' = Append(appended, ArchiveEntry(now, bulletin_data))
    /\ now' = now + 1
    /\ UNCHANGED <<threatFile, cacheFile, statusFile, eqCacheFile, run, lastFull,
                   statusTimes, calc>>

SpecArchive == InitArchive /\ [][ArchiveAppend]_vars

----------------------------------------------------------------------------
(* Properties *)

Odd(h) == h % 2 = 1

FlagIsTrue(file) == file = Json(ThreatRecord(TRUE))

\* C1: should_skip_run skips if and only if the force override is not set,
\* the PHT hour is odd and the persisted threat flag is not true, whatever
\* else the threat file holds (false, no key, missing, unreadable).
C1_SkipIffOddUnforcedNoThreat ==
    run.outcome # "none" =>
        (run.outcome = "skipped"
            <=> (~run.force /\ Odd(run.hour) /\ ~FlagIsTrue(threatFile)))

\* An odd-hour invocation without override that runs because the flag is true,
\* reached in SpecSkip.
C1_Witness ==
    /\ run.outcome = "proceed" /\ ~run.force /\ Odd(run.hour)
    /\ FlagIsTrue(threatFile)

\* The flag the most recent full cycle derived, FALSE before any full cycle.
LastFullFlag ==
    /\ lastFull.happened /\ lastFull.has_reading
    /\ \E p \in PortSet : lastFull.port_status[p].tcws \in 2..5

\* C2: while the persisted flag is true every invocation runs as a full
\* cycle, the flag leaves true only by a full cycle persisting false, and the
\* skip decision of an invocation follows the flag of the most recent earlier
\* full cycle, not the reading of the invocation itself.
C2_HourlyWhileThreat ==
    [][ /\ (now' = now /\ FlagIsTrue(threatFile))
            => run'.outcome \in {"full", "failed"}
        /\ (FlagIsTrue(threatFile) /\ ~FlagIsTrue(threatFile'))
            => (run'.outcome = "full" /\ threatFile' = Json(ThreatRecord(FALSE)))
        /\ now' = now
            => (run'.outcome = "skipped"
                  <=> (~run'.force /\ Odd(run'.hour) /\ ~LastFullFlag)) ]_vars

\* A full cycle at an odd hour without override whose own reading carries no
\* elevated threat: it ran on the flag of the cycle before.
C2_Witness ==
    /\ run.outcome = "full" /\ Odd(run.hour) /\ ~run.force
    /\ ~run.has_elevated_threat
    /\ threatFile = Json(ThreatRecord(FALSE))

\* C3: with an empty cached snapshot should_send_alert is true for every
\* current bulletin.
C3_FirstSnapshotAlerts ==
    (run.outcome = "decided" /\ cacheFile = Missing) => run.alert = "yes"

C3_Witness ==
    run.outcome = "decided" /\ cacheFile = Missing /\ run.alert = "yes"

SameTime == run.bulletin_data.bulletin_time = cacheFile.data.bulletin_time

SameSignals ==
    \A p \in PortSet :
        run.bulletin_data.port_status[p].tcws = cacheFile.data.port_status[p].tcws

CurrentEta(p) == run.bulletin_data.port_status[p].eta_hours

CachedEta(p) == cacheFile.data.port_status[p].eta_hours

\* C4: with a non-empty cache, equal bulletin_time, equal signal levels and
\* every ETA within 3 hours of the cached one, should_send_alert is false.
C4_QuietWithin3h ==
    ( /\ run.outcome = "decided" /\ cacheFile.kind = "json"
      /\ SameTime /\ SameSignals
      /\ \A p \in PortSet :
            \/ CurrentEta(p) = None /\ CachedEta(p) = None
            \/ /\ CurrentEta(p) # None /\ CachedEta(p) # None
               /\ Abs(CurrentEta(p) - CachedEta(p)) <= 30 )
    => run.alert = "no"

\* C5: a signal level that differs from the non-empty cached snapshot makes
\* should_send_alert true, whatever the bulletin_time and the ETAs.
C5_SignalDiffAlerts ==
    ( /\ run.outcome = "decided" /\ cacheFile.kind = "json"
      /\ ~SameSignals )
    => run.alert = "yes"

\* Only the signal level differs, one side having none, and the alert fires.
C5_Witness ==
    /\ run.outcome = "decided" /\ cacheFile.kind = "json"
    /\ SameTime
    /\ \A p \in PortSet : CurrentEta(p) = CachedEta(p)
    /\ \E p \in PortSet :
          /\ run.bulletin_data.port_status[p].tcws # None
          /\ cacheFile.data.port_status[p].tcws = None
    /\ run.alert = "yes"

\* C6: with equal bulletin_time and equal signal levels should_send_alert is
\* true if and only if some installation has an ETA on both sides and the two
\* differ by more than 3 hours.
C6_EtaDiffIffOver3h ==
    ( /\ run.outcome = "decided" /\ cacheFile.kind = "json"
      /\ SameTime /\ SameSignals )
    => ( run.alert = "yes"
           <=> \E p \in PortSet :
                  /\ CurrentEta(p) # None /\ CachedEta(p) # None
                  /\ Abs(CurrentEta(p) - CachedEta(p)) > 30 )

\* C7: check_threat_level is true if and only if some installation has a
\* signal level in {2,3,4,5}.
C7_ThreatIffSignal2Plus ==
    run.outcome = "decided" =>
        (run.has_elevated_threat
            <=> \E p \in PortSet :
                   run.bulletin_data.port_status[p].tcws \in {2, 3, 4, 5})

\* Signal 2 at one installation and none or 1 elsewhere: elevated.
C7_Witness ==
    /\ run.outcome = "decided" /\ run.has_elevated_threat
    /\ run.bulletin_data.port_status["MICT"].tcws = 2
    /\ run.bulletin_data.port_status["SBITC"].tcws = 1

\* C8: the persisted ThreatFlag is the value derived from the snapshot of the
\* most recent full cycle (false when that cycle had no reading), and the
\* file does not exist before the first full cycle.
C8_FlagIsFunctionOfSnapshot ==
    IF lastFull.happened
    THEN threatFile = Json(ThreatRecord(LastFullFlag))
    ELSE threatFile = Missing

\* A cycle without a reading following one with an elevated threat: the flag
\* on disk is false again.
C8_Witness ==
    /\ lastFull.happened /\ ~lastFull.has_reading
    /\ cacheFile.kind = "json"
    /\ \E p \in PortSet : cacheFile.data.port_status[p].tcws = 2
    /\ threatFile = Json(ThreatRecord(FALSE))

\* C9: an invocation that decides to notify writes the cache and appends to
\* the archive; every other step leaves both unchanged; so the cache holds the
\* last notified snapshot.
C9_PersistIffNotify ==
    /\ [][ IF now' = now /\ run'.alert = "yes"
           THEN /\ cacheFile' = Json(run'.bulletin_data)
                /\ cacheFile' # cacheFile
                /\ load_archive(archiveFile') =
                      Append(load_archive(archiveFile),
                             ArchiveEntry(now, run'.bulletin_data))
           ELSE /\ cacheFile' = cacheFile
                /\ archiveFile' = archiveFile ]_vars
    /\ [](IF appended = << >>
          THEN cacheFile = Missing
          ELSE cacheFile = Json(appended[Len(appended)].data))

\* A cycle that saw a bulletin, decided not to notify and left a cache that
\* differs from what it saw.
C9_Witness ==
    /\ run.outcome = "full" /\ run.has_reading /\ run.alert = "no"
    /\ cacheFile.kind = "json"
    /\ cacheFile.data # run.bulletin_data

\* C10: the archive holds at most 100 entries, and they are the most recently
\* appended ones in append order.
C10_ArchiveIsRecentSuffix ==
    LET archive == load_archive(archiveFile)
        n == Len(appended)
    IN  /\ Len(archive) = IF n <= ARCHIVE_LIMIT THEN n ELSE ARCHIVE_LIMIT
        /\ \A i \in 1..Len(archive) :
              archive[i] = appended[n - Len(archive) + i]

\* More than 100 appends were made and the archive is full.
C10_Witness ==
    /\ Len(appended) > ARCHIVE_LIMIT
    /\ Len(load_archive(archiveFile)) = ARCHIVE_LIMIT

----------------------------------------------------------------------------
(* C11: status updates and threat alerts within one cycle *)

\* C11 as stated: the status decision of a full cycle depends only on the
\* time, the status mark and the force override, so a status update goes out
\* whenever it is due, whether or not the cycle has a reading or an alert.
C11_StatusIndependentOfAlert ==
    [][(now' = now /\ run'.outcome = "full")
         => (run'.status_sent
               <=> (should_send_status_update(now, statusFile) \/ run'.force))]_vars

\* C11 amended: a status update is sent exactly in the full cycles without a
\* reading in which it is due or forced, and an alert only in cycles with a
\* reading; no cycle sends both.
C11_StatusOnlyWithoutReading ==
    /\ [][(now' = now /\ run'.outcome = "full")
            => (run'.status_sent
                  <=> /\ ~run'.has_reading
                      /\ (should_send_status_update(now, statusFile)
                            \/ run'.force))]_vars
    /\ [](~(run.alert = "yes" /\ run.status_sent))
    /\ [](run.alert = "yes" => run.has_reading)

\* A cycle that sent an alert while a status update was due (no mark yet) and
\* sent no status update.
C11_Witness ==
    /\ run.outcome = "full"
    /\ run.alert = "yes"
    /\ ~run.status_sent
    /\ statusFile = Missing

----------------------------------------------------------------------------
(* The status decision alone: should_send_status_update on any clock hour *)
(* of one day and any mark saved up to then.                              *)

\* The last clock hour considered; the first is 00:00 of the second day.
MaxStatusNow == 47

\* What the status file may hold: nothing, unparseable text, a document
\* without last_update, or a mark that save_status_update wrote at hour m.
StatusFiles(t) ==
    {Missing, Corrupt, Json(NoKeyRecord)} \cup {save_status_update(m) : m \in 0..t}

InitStatus ==
    /\ now \in 24..MaxStatusNow
    /\ statusFile \in StatusFiles(now)
    /\ threatFile = Missing
    /\ cacheFile = Missing
    /\ archiveFile = Missing
    /\ eqCacheFile = Missing
    /\ run = NoRun
    /\ lastFull = [happened |-> FALSE, has_reading |-> FALSE,
                   port_status |-> NullBulletin.port_status]
    /\ appended = << >>
    /\ statusTimes = {}
    /\ calc = NoCalc

StatusDecision ==
    /\ run.outcome = "none"
    /\ run' = [NoRun EXCEPT
                 !.outcome = "decided",
                 !.hour = HourOf(now),
                 !.status_sent = should_send_status_update(now, statusFile)]
    /\ UNCHANGED <<now, threatFile, cacheFile, archiveFile, statusFile,
                   eqCacheFile, lastFull, appended, statusTimes, calc>>

SpecStatus == InitStatus /\ [][StatusDecision]_vars

\* The status file holds a readable mark.
HasMark ==
    /\ statusFile.kind = "json"
    /\ "last_update" \in DOMAIN statusFile.data

Mark == statusFile.data.last_update

\* C12: should_send_status_update is true exactly when there is no prior
\* mark, or at least 12 hours passed since the mark, or it is 07:00-18:59 and
\* the mark is earlier than 07:00 today, or it is 19:00-23:59 and the mark is
\* earlier than 19:00 today.
C12_StatusDecision ==
    run.outcome = "decided" =>
        (run.status_sent <=>
            \/ ~HasMark
            \/ /\ HasMark
               /\ \/ now - Mark >= 12
                  \/ /\ run.hour \in 7..18
                     /\ Mark < 24 * (now \div 24) + 7
                  \/ /\ run.hour \in 19..23
                     /\ Mark < 24 * (now \div 24) + 19)

\* The evening rule alone decides: a mark of this afternoon, read after 19:00.
C12_Witness ==
    /\ run.outcome = "decided"
    /\ run.status_sent
    /\ HasMark
    /\ now - Mark < 12
    /\ run.hour >= 19
    /\ Mark >= 24 * (now \div 24) + 7

----------------------------------------------------------------------------
(* One day of unforced cycles.  Cycles with a bulletin leave the status   *)
(* mark alone (status_with_bulletin), so the day is made of the cycles    *)
(* without one; the clock starts at midnight on a fresh deployment.       *)

\* The last clock hour of the day considered.
MaxDayNow == 20

CycleDay == main("unset", NoReading, << >>, TRUE)

TickDay ==
    /\ now < MaxDayNow
    /\ now' = now + 1
    /\ UNCHANGED <<threatFile, cacheFile, archiveFile, statusFile, eqCacheFile,
                   run, lastFull, appended, statusTimes, calc>>

NextDay == CycleDay \/ TickDay

SpecDay == Init /\ [][NextDay]_vars

\* The status windows of a day: 07:00-18:59 and 19:00-23:59.
Window(t) ==
    IF HourOf(t) >= 19 THEN "evening"
    ELSE IF HourOf(t) >= 7 THEN "morning"
    ELSE "night"

\* C13: without the force override at most two status updates are sent within
\* one calendar day, and once an update is sent and its mark saved, a cycle
\* inside the same window of that day sends none.
C13_TwiceDailyCadence ==
    /\ [](Cardinality({t \in statusTimes : DateOf(t) = DateOf(now)}) <= 2)
    /\ [][(/\ now' = now
           /\ run'.outcome = "full"
           /\ HasMark
           /\ DateOf(Mark) = DateOf(now)
           /\ Window(Mark) = Window(now)
           /\ Window(now) # "night")
          => ~run'.status_sent]_vars

----------------------------------------------------------------------------
(* Cycles over damaged slots: each of the four state files is either      *)
(* absent or holds text that json.load rejects.                           *)

InitCorrupt ==
    /\ now = 0
    /\ threatFile \in {Missing, Corrupt}
    /\ cacheFile \in {Missing, Corrupt}
    /\ statusFile \in {Missing, Corrupt}
    /\ eqCacheFile \in {Missing, Corrupt}
    /\ archiveFile = Missing
    /\ run = NoRun
    /\ lastFull = [happened |-> FALSE, has_reading |-> FALSE,
                   port_status |-> NullBulletin.port_status]
    /\ appended = << >>
    /\ statusTimes = {}
    /\ calc = NoCalc

SpecCorrupt == InitCorrupt /\ [][Next]_vars

\* C14: unparseable content in any state file is treated as an empty slot: no
\* error leaves a load, a cycle with a reading still evaluates the alert
\* decision, and the earthquake decision is still evaluated.
C14_CorruptSlotIsEmpty ==
    /\ run.outcome # "failed"
    /\ (run.has_reading => run.alert \in {"yes", "no"})
    /\ run.eq # "load_failed"

----------------------------------------------------------------------------
(* C16: the earthquake path next to the weather path *)

\* The feed holds an event of magnitude 3.8 or more.
HasSignificant(feed) ==
    \E i \in 1..Len(feed) : feed[i].magnitude >= SIGNIFICANT_TENTHS

\* C16: in every cycle that is not skipped the most recent significant
\* earthquake of the feed is evaluated against the earthquake cache whatever
\* the weather path did, a failure inside it included; and the earthquake
\* path leaves the snapshot cache to the weather path, which leaves the
\* earthquake cache alone.
C16_QuakePathIndependent ==
    /\ []((run.outcome \in {"full", "failed"} /\ HasSignificant(run.feed))
            => run.eq # "none")
    /\ [][(run'.outcome \in {"full", "failed"} /\ ~HasSignificant(run'.feed))
            => eqCacheFile' = eqCacheFile]_vars
    /\ [][(run'.outcome \in {"full", "failed"} /\ ~run'.has_reading)
            => cacheFile' = cacheFile]_vars

----------------------------------------------------------------------------
(* The earthquake section alone, over feeds and cached events. *)

QuakeTimes == {1, 2}

QuakeLocations == {"Batangas", "Leyte"}

\* Magnitudes of significant events, tenths: steps of 0.1, 0.2 and 0.3 apart.
QuakeMagnitudes == {38, 40, 41, 42, 43}

Quakes ==
    {Quake(t, l, m) : t \in QuakeTimes, l \in QuakeLocations,
                      m \in QuakeMagnitudes}

\* An event below the alert threshold.
MinorQuake == Quake(2, "Leyte", 37)

\* Feeds in PHIVOLCS order, most recent first: empty, minor events only, one
\* significant event, a minor event before it, an older significant one behind.
QuakeFeeds ==
    {<< >>, <<MinorQuake>>}
        \cup {<<q>> : q \in Quakes}
        \cup {<<MinorQuake, q>> : q \in Quakes}
        \cup {<<q, Quake(1, "Batangas", 40)>> : q \in Quakes}

InitQuake ==
    /\ now = 0
    /\ eqCacheFile \in {Missing, Corrupt, Json(EmptyDict)}
                          \cup {Json(q) : q \in Quakes}
    /\ threatFile = Missing
    /\ cacheFile = Missing
    /\ archiveFile = Missing
    /\ statusFile = Missing
    /\ run = NoRun
    /\ lastFull = [happened |-> FALSE, has_reading |-> FALSE,
                   port_status |-> NullBulletin.port_status]
    /\ appended = << >>
    /\ statusTimes = {}
    /\ calc = NoCalc

EarthquakeCheck ==
    /\ \E all_earthquakes \in QuakeFeeds :
       \E e \in {earthquake_section(all_earthquakes)} :
          /\ eqCacheFile' = e.cache
          /\ run' = [NoRun EXCEPT !.outcome = "decided",
                                  !.eq = e.eq,
                                  !.feed = all_earthquakes,
                                  !.quake = e.quake]
    /\ UNCHANGED <<now, threatFile, cacheFile, archiveFile, statusFile,
                   lastFull, appended, statusTimes, calc>>

SpecQuake == InitQuake /\ [][EarthquakeCheck]_vars

\* C15: for a readable cache should_send_earthquake_alert is true exactly
\* when the cache is empty, or the timestamp token differs, or the location
\* differs, or the magnitudes differ by more than 0.2.
C15_QuakeAlertIffChanged ==
    [][(run'.quake # NoQuake /\ ~load_raises(eqCacheFile))
         => LET cached_eq == load_cache(eqCacheFile)
            IN  (run'.eq # "already")
                  <=> \/ DOMAIN cached_eq = {}
                      \/ /\ DOMAIN cached_eq # {}
                         /\ \/ run'.quake.datetime_str # cached_eq.datetime_str
                            \/ run'.quake.location # cached_eq.location
                            \/ Abs(run'.quake.magnitude - cached_eq.magnitude) > 2]_vars

\* C17: the event evaluated is the first of the feed with magnitude 3.8 or
\* more (none if there is none); nothing is alerted or cached for a feed of
\* smaller events; and the earthquake cache is only ever replaced by the one
\* event just alerted.
C17_FirstSignificantEvaluated ==
    /\ [](run.outcome = "decided" =>
            IF HasSignificant(run.feed)
            THEN \E i \in 1..Len(run.feed) :
                    /\ run.quake = run.feed[i]
                    /\ run.feed[i].magnitude >= SIGNIFICANT_TENTHS
                    /\ \A j \in 1..(i - 1) :
                          run.feed[j].magnitude < SIGNIFICANT_TENTHS
            ELSE run.quake = NoQuake /\ run.eq = "none")
    /\ [][~HasSignificant(run'.feed) => eqCacheFile' = eqCacheFile]_vars
    /\ [][eqCacheFile' # eqCacheFile
            => (run'.eq = "sent" /\ eqCacheFile' = Json(run'.quake))]_vars

\* A minor event heads the feed and the alert is attempted for the significant
\* event behind it.
C17_Witness ==
    /\ run.outcome = "decided"
    /\ Len(run.feed) = 2
    /\ run.feed[1].magnitude < SIGNIFICANT_TENTHS
    /\ run.quake = run.feed[2]
    /\ run.eq = "send_failed"

----------------------------------------------------------------------------
(* Signal resolution: _get_tcws_for_port.  Names are sequences of         *)
(* characters so that lower() and the substring test are computed.        *)

UpperCase == <<"A", "B", "C", "D", "E", "F", "G", "H", "I", "J", "K", "L", "M">>
             \o <<"N", "O", "P", "Q", "R", "S", "T", "U", "V", "W", "X", "Y", "Z">>

LowerCase == <<"a", "b", "c", "d", "e", "f", "g", "h", "i", "j", "k", "l", "m">>
             \o <<"n", "o", "p", "q", "r", "s", "t", "u", "v", "w", "x", "y", "z">>

lower_char(c) ==
    IF \E i \in 1..Len(UpperCase) : UpperCase[i] = c
    THEN LowerCase[CHOOSE i \in 1..Len(UpperCase) : UpperCase[i] = c]
    ELSE c

\* str.lower()
lower(s) == [i \in 1..Len(s) |-> lower_char(s[i])]

\* Python's `x in s` on strings.
Contains(x, s) ==
    \E k \in 0..(Len(s) - Len(x)) : SubSeq(s, k + 1, k + Len(x)) = x

\* The keys of PORTS, spelled out.
PortChars(port_name) ==
    CASE port_name = "SBITC" -> <<"S", "B", "I", "T", "C">>
      [] port_name = "MICT" -> <<"M", "I", "C", "T">>
      [] port_name = "Bauan" -> <<"B", "a", "u", "a", "n">>
      [] port_name = "VCT" -> <<"V", "C", "T">>
      [] port_name = "MICTSI" -> <<"M", "I", "C", "T", "S", "I">>

\* Lines 179-204: does this area of a warning level cover the port?
area_matches(port_name, area) ==
    LET area_lower == lower(area)
        port_lower == lower(PortChars(port_name))
    IN  \/ Contains(port_lower, area_lower)
        \/ /\ port_lower = <<"m", "a", "n", "i", "l", "a">>
           /\ \/ Contains(<<"m", "e", "t", "r", "o", " ", "m", "a", "n", "i", "l", "a">>,
                          area_lower)
              \/ Contains(<<"n", "c", "r">>, area_lower)
              \/ Contains(<<"n", "a", "t", "i", "o", "n", "a", "l", " ", "c", "a", "p", "i", "t", "a", "l">>,
                          area_lower)
        \/ /\ port_lower = <<"s", "u", "b", "i", "c">>
           /\ Contains(<<"z", "a", "m", "b", "a", "l", "e", "s">>, area_lower)
        \/ /\ port_lower = <<"b", "a", "t", "a", "n", "g", "a", "s">>
           /\ Contains(<<"b", "a", "t", "a", "n", "g", "a", "s">>, area_lower)
        \/ /\ port_lower = <<"i", "l", "o", "i", "l", "o">>
           /\ Contains(<<"i", "l", "o", "i", "l", "o">>, area_lower)
        \/ /\ port_lower = <<"c", "a", "g", "a", "y", "a", "n">>
           /\ Contains(<<"c", "a", "g", "a", "y", "a", "n">>, area_lower)

first_level_ascending(keys) == CHOOSE x \in keys : \A y \in keys : x <= y

\* Line 173: sorted(tcws_data.keys(), reverse=True) visits the largest key first.
first_level(keys) == CHOOSE x \in keys : \A y \in keys : y <= x

RECURSIVE level_loop(_, _, _)
level_loop(port_name, tcws_data, keys) ==
    IF keys = {} THEN None
    ELSE LET level == first_level(keys)
             areas == tcws_data[level]
         IN  IF \E i \in 1..Len(areas) : area_matches(port_name, areas[i])
             THEN level
             ELSE level_loop(port_name, tcws_data, keys \ {level})

get_tcws_for_port(port_name, tcws_data) ==
    IF DOMAIN tcws_data = {} THEN None
    ELSE level_loop(port_name, tcws_data, DOMAIN tcws_data)

\* Area names as PAGASA bulletins list them.
MetroManila == <<"M", "e", "t", "r", "o", " ", "M", "a", "n", "i", "l", "a">>

NCR == <<"N", "C", "R">>

Zambales == <<"Z", "a", "m", "b", "a", "l", "e", "s">>

BatangasBauan ==
    <<"B", "a", "t", "a", "n", "g", "a", "s", " ", "(", "B", "a", "u", "a", "n", ")">>

BAUAN == <<"B", "A", "U", "A", "N">>

AreaLists ==
    {<<MetroManila>>, <<NCR, Zambales>>, <<BatangasBauan>>, <<Zambales, BAUAN>>}

\* PAGASA has five signal levels (_extract_tcws_areas, range(1, 6)).
SignalLevels == 1..5

\* Levels a warning map of SpecSignal may list at once.
MaxLevels == 2

\* tcws_areas: level -> areas, for up to MaxLevels levels; possibly empty.
WarningMaps ==
    UNION {[K -> AreaLists] :
             K \in {S \in SUBSET SignalLevels : Cardinality(S) <= MaxLevels}}

InitSignal ==
    /\ now = 0
    /\ threatFile = Missing
    /\ cacheFile = Missing
    /\ archiveFile = Missing
    /\ statusFile = Missing
    /\ eqCacheFile = Missing
    /\ run = NoRun
    /\ lastFull = [happened |-> FALSE, has_reading |-> FALSE,
                   port_status |-> NullBulletin.port_status]
    /\ appended = << >>
    /\ statusTimes = {}
    /\ calc = NoCalc

ResolveSignal ==
    /\ calc.called = "none"
    /\ \E port_name \in PortSet, tcws_data \in WarningMaps :
          calc' = [called |-> "get_tcws_for_port",
                   port_name |-> port_name,
                   tcws_data |-> tcws_data,
                   tcws |-> get_tcws_for_port(port_name, tcws_data)]
    /\ UNCHANGED <<now, threatFile, cacheFile, archiveFile, statusFile,
                   eqCacheFile, run, lastFull, appended, statusTimes>>

SpecSignal == InitSignal /\ [][ResolveSignal]_vars

\* The levels of the map that list an area matching the port.
MatchingLevels(port_name, tcws_data) ==
    {level \in DOMAIN tcws_data :
        \E i \in 1..Len(tcws_data[level]) :
            area_matches(port_name, tcws_data[level][i])}

\* C18: the level returned is the highest level of the map with an area
\* matching the installation, none when no level matches, and always a key of
\* the map.
C18_HighestMatchingLevel ==
    calc.called = "get_tcws_for_port" =>
        LET matching == MatchingLevels(calc.port_name, calc.tcws_data)
        IN  IF matching = {}
            THEN calc.tcws = None
            ELSE /\ calc.tcws \in matching
                 /\ \A level \in matching : level <= calc.tcws
                 /\ calc.tcws \in DOMAIN calc.tcws_data

\* Bauan is listed under two levels and gets the higher one.
C18_Witness ==
    /\ calc.called = "get_tcws_for_port"
    /\ calc.port_name = "Bauan"
    /\ Cardinality(MatchingLevels(calc.port_name, calc.tcws_data)) = 2
    /\ calc.tcws \in DOMAIN calc.tcws_data
    /\ \E level \in DOMAIN calc.tcws_data : level < calc.tcws

\* The levels of the map that list Metro Manila or NCR.
CapitalLevels(tcws_data) ==
    {level \in DOMAIN tcws_data :
        \E i \in 1..Len(tcws_data[level]) :
            tcws_data[level][i] \in {MetroManila, NCR}}

\* C19: when the warning map lists Metro Manila or NCR under a level, MICT
\* resolves to that level (the highest such level).
C19_CapitalAliasResolvesMICT ==
    (/\ calc.called = "get_tcws_for_port"
     /\ calc.port_name = "MICT"
     /\ CapitalLevels(calc.tcws_data) # {})
    => /\ calc.tcws # None
       /\ \A level \in CapitalLevels(calc.tcws_data) : level <= calc.tcws

----------------------------------------------------------------------------
(* calculate_all_ports.  Distances are hundredths of a km and raw ETAs    *)
(* hundredths of an hour: what haversine_distance and calculate_eta       *)
(* return, before the rounding to one decimal.                            *)

PROXIMITY_THRESHOLD_KM == 700

within_proximity_strict(distance) == distance < PROXIMITY_THRESHOLD_KM * 100

\* distance <= self.PROXIMITY_THRESHOLD_KM
within_proximity(distance) == distance <= PROXIMITY_THRESHOLD_KM * 100

\* round(x, 1): hundredths to tenths (the inputs below never sit on a tie).
round1(x) == (x + 5) \div 10

\* No movement direction: None or '', both false at lines 57 and 117.
NoDirection == << >>

upper_char(c) ==
    IF \E i \in 1..Len(LowerCase) : LowerCase[i] = c
    THEN UpperCase[CHOOSE i \in 1..Len(LowerCase) : LowerCase[i] = c]
    ELSE c

\* str.upper()
upper(s) == [i \in 1..Len(s) |-> upper_char(s[i])]

\* The keys of DIRECTIONS in the order of their bearings, 22.5 degrees apart.
DirectionNames ==
    <<
      <<"N">>,
      <<"N", "N", "E">>,
      <<"N", "E">>,
      <<"E", "N", "E">>,
      <<"E">>,
      <<"E", "S", "E">>,
      <<"S", "E">>,
      <<"S", "S", "E">>,
      <<"S">>,
      <<"S", "S", "W">>,
      <<"S", "W">>,
      <<"W", "S", "W">>,
      <<"W">>,
      <<"W", "N", "W">>,
      <<"N", "W">>,
      <<"N", "N", "W">>
    >>

DIRECTIONS_default_north(name) ==
    IF \E i \in 1..Len(DirectionNames) : DirectionNames[i] = name
    THEN 45 * ((CHOOSE i \in 1..Len(DirectionNames) : DirectionNames[i] = name) - 1)
    ELSE 0

\* DIRECTIONS.get(name): the bearing in half degrees, None for an unknown name.
DIRECTIONS(name) ==
    IF \E i \in 1..Len(DirectionNames) : DirectionNames[i] = name
    THEN 45 * ((CHOOSE i \in 1..Len(DirectionNames) : DirectionNames[i] = name) - 1)
    ELSE None

\* 10000 * math.cos(math.radians(a / 2)) for a = 0..180 half degrees.  The
\* last entry stands for cos(90 deg) = 6.1e-17, which is positive in floats.
CosE4 ==
    <<
    10000, 10000, 9998, 9997, 9994, 9990, 9986, 9981, 9976, 9969, 9962, 9954,
    9945, 9936, 9925, 9914, 9903, 9890, 9877, 9863, 9848, 9833, 9816, 9799,
    9781, 9763, 9744, 9724, 9703, 9681, 9659, 9636, 9613, 9588, 9563, 9537,
    9511, 9483, 9455, 9426, 9397, 9367, 9336, 9304, 9272, 9239, 9205, 9171,
    9135, 9100, 9063, 9026, 8988, 8949, 8910, 8870, 8829, 8788, 8746, 8704,
    8660, 8616, 8572, 8526, 8480, 8434, 8387, 8339, 8290, 8241, 8192, 8141,
    8090, 8039, 7986, 7934, 7880, 7826, 7771, 7716, 7660, 7604, 7547, 7490,
    7431, 7373, 7314, 7254, 7193, 7133, 7071, 7009, 6947, 6884, 6820, 6756,
    6691, 6626, 6561, 6494, 6428, 6361, 6293, 6225, 6157, 6088, 6018, 5948,
    5878, 5807, 5736, 5664, 5592, 5519, 5446, 5373, 5299, 5225, 5150, 5075,
    5000, 4924, 4848, 4772, 4695, 4617, 4540, 4462, 4384, 4305, 4226, 4147,
    4067, 3987, 3907, 3827, 3746, 3665, 3584, 3502, 3420, 3338, 3256, 3173,
    3090, 3007, 2924, 2840, 2756, 2672, 2588, 2504, 2419, 2334, 2250, 2164,
    2079, 1994, 1908, 1822, 1736, 1650, 1564, 1478, 1392, 1305, 1219, 1132,
    1045, 958, 872, 785, 698, 610, 523, 436, 349, 262, 175, 87,
    0
    >>

normalise_mod_180(raw_diff) == raw_diff % 360

\* Lines 131-132: a difference above 180 degrees is taken the other way round.
normalise(raw_diff) == IF raw_diff > 360 THEN 720 - raw_diff ELSE raw_diff

\* Line 135: angle_diff > 90 (in half degrees).
moving_away(angle_diff) == angle_diff > 180

eta_reasonable_always(distance, effective_speed) == TRUE

\* Line 153: eta <= 72 with eta = distance / effective_speed; distance in
\* hundredths of a km, effective_speed in 1/10000 km/h.
eta_reasonable(distance, effective_speed) == distance * 100 <= 72 * effective_speed

\* Lines 110-156.  port_bearing is what calculate_bearing returns, in half
\* degrees; distance is what haversine_distance returns, in hundredths of a
\* km.  The result is in hundredths of an hour.
calculate_eta(port_bearing, distance, movement_dir, movement_speed) ==
    IF movement_dir = NoDirection \/ ~Truthy(movement_speed) \/ movement_speed <= 0
    THEN None
    ELSE LET movement_bearing == DIRECTIONS(upper(movement_dir))
         IN  IF movement_bearing = None THEN None
             ELSE LET raw_diff == Abs(movement_bearing - port_bearing)
                      angle_diff == normalise(raw_diff)
                      effective_speed == movement_speed * CosE4[angle_diff + 1]
                  IN  IF moving_away(angle_diff) THEN None
                      ELSE IF effective_speed = 0
                      THEN \* cos(90 deg) > 0 in floats: the quotient is
                           \* finite, 0.0, only for distance 0.
                           IF distance = 0 THEN 0 ELSE None
                      ELSE IF eta_reasonable(distance, effective_speed)
                      THEN (distance * 10000) \div effective_speed
                      ELSE None

calculate_all_ports(distance, port_bearing, movement_dir, movement_speed, tcws_data) ==
    [port_name \in PortSet |->
        LET tcws_level == IF DOMAIN tcws_data # {}
                          THEN get_tcws_for_port(port_name, tcws_data)
                          ELSE None
            eta_hours == IF /\ movement_dir # NoDirection
                            /\ Truthy(movement_speed)
                            /\ movement_speed > 0
                         THEN calculate_eta(port_bearing[port_name],
                                            distance[port_name],
                                            movement_dir, movement_speed)
                         ELSE None
        IN  [distance_km |-> round1(distance[port_name]),
             tcws |-> tcws_level,
             eta_hours |-> IF Truthy(eta_hours) THEN round1(eta_hours) ELSE None,
             is_threatened |-> (tcws_level # None)
                                 \/ within_proximity(distance[port_name]),
             in_proximity |-> within_proximity(distance[port_name])]]

\* Distances around the threshold: 699.96, 700.00, 700.04 and 1250 km.
ProximityDistances == {69996, 70000, 70004, 125000}

\* The storm is at one distance from the Luzon terminals and at another from
\* the two southern ones.
DistanceMaps ==
    {[port_name \in PortSet |->
         IF port_name \in {"SBITC", "MICT", "Bauan"} THEN north ELSE south] :
       north \in ProximityDistances, south \in ProximityDistances}

\* What calculate_bearing returns for the five terminals: all of them lie
\* to the north-west (315 deg) or all to the south-east (135 deg) of the storm.
BearingMaps == {[port_name \in PortSet |-> b] : b \in {630, 270}}

\* movement_direction as _extract_movement_direction returns it: absent, a
\* compass name, or a longer word that is no key of DIRECTIONS.
NW == <<"N", "W">>

NORTHWEST == <<"N", "O", "R", "T", "H", "W", "E", "S", "T">>

PortWarningMaps ==
    {EmptyDict, [level \in {2} |-> <<BatangasBauan>>],
     [level \in {1} |-> <<MetroManila>>]}

CalculateAllPorts ==
    /\ calc.called = "none"
    /\ \E distance \in DistanceMaps, port_bearing \in BearingMaps,
          movement_dir \in {NoDirection, NW, NORTHWEST},
          movement_speed \in {None, 0, 20},
          tcws_data \in PortWarningMaps :
          calc' = [called |-> "calculate_all_ports",
                   distance |-> distance,
                   port_bearing |-> port_bearing,
                   movement_dir |-> movement_dir,
                   movement_speed |-> movement_speed,
                   tcws_data |-> tcws_data,
                   port_status |->
                       calculate_all_ports(distance, port_bearing,
                                           movement_dir, movement_speed,
                                           tcws_data)]
    /\ UNCHANGED <<now, threatFile, cacheFile, archiveFile, statusFile,
                   eqCacheFile, run, lastFull, appended, statusTimes>>

SpecPorts == InitSignal /\ [][CalculateAllPorts]_vars

\* C20: calculate_all_ports returns one status for every configured
\* installation; in each, in_proximity is true exactly when the distance is at
\* most 700 km, and is_threatened exactly when a signal level is present or
\* in_proximity is true.
C20_ThreatStatusInvariants ==
    calc.called = "calculate_all_ports" =>
        /\ DOMAIN calc.port_status = {PORTS[i] : i \in 1..Len(PORTS)}
        /\ \A port_name \in DOMAIN calc.port_status :
              LET status == calc.port_status[port_name]
              IN  /\ status.in_proximity <=> calc.distance[port_name] <= 70000
                  /\ status.is_threatened
                       <=> (status.tcws # None \/ status.in_proximity)

\* One call in which Bauan, 1250 km away, is threatened by its signal alone
\* and a terminal exactly 700.00 km away with no signal is in proximity.
C20_Witness ==
    /\ calc.called = "calculate_all_ports"
    /\ calc.port_status["Bauan"].tcws = 2
    /\ calc.distance["Bauan"] = 125000
    /\ calc.port_status["Bauan"].is_threatened
    /\ ~calc.port_status["Bauan"].in_proximity
    /\ calc.distance["VCT"] = 70000
    /\ calc.port_status["VCT"].tcws = None
    /\ calc.port_status["VCT"].in_proximity
    /\ calc.port_status["VCT"].is_threatened

----------------------------------------------------------------------------
(* calculate_eta alone *)

EtaDirections == {NoDirection, NW, <<"n", "w">>, <<"N">>, <<"E">>, NORTHWEST}

\* movement_speed: absent, not positive, 10 and 20 km/h.
EtaSpeeds == {None, -5, 0, 10, 20}

\* Bearings to the installation, half degrees: ahead of, abeam of and behind
\* the headings N (0), E (180) and NW (630), some across the 0/360 seam.
EtaBearings == {0, 90, 180, 449, 450, 539, 540, 630, 719}

\* 0, 700, 1439.9, 1440, 1440.1 and 2000 km; 1440 km at 20 km/h is 72 hours.
EtaDistances == {0, 70000, 143990, 144000, 144010, 200000}

CalculateEta ==
    /\ calc.called = "none"
    /\ \E port_bearing \in EtaBearings, distance \in EtaDistances,
          movement_dir \in EtaDirections, movement_speed \in EtaSpeeds :
          calc' = [called |-> "calculate_eta",
                   port_bearing |-> port_bearing,
                   distance |-> distance,
                   movement_dir |-> movement_dir,
                   movement_speed |-> movement_speed,
                   eta |-> calculate_eta(port_bearing, distance,
                                         movement_dir, movement_speed)]
    /\ UNCHANGED <<now, threatFile, cacheFile, archiveFile, statusFile,
                   eqCacheFile, run, lastFull, appended, statusTimes>>

SpecEta == InitSignal /\ [][CalculateEta]_vars

\* The direction, upper-cased, is one of the 16 compass names.
KnownDirection(movement_dir) ==
    \E i \in 1..Len(DirectionNames) : DirectionNames[i] = upper(movement_dir)

\* There is motion data: a direction, and a positive speed.
HasMotion(movement_dir, movement_speed) ==
    /\ movement_dir # NoDirection
    /\ movement_speed # None
    /\ movement_speed > 0
    /\ KnownDirection(movement_dir)

\* C21: without a direction, without a positive speed, or with a direction
\* that is none of the 16 compass names, every installation's eta_hours is
\* none while distance, signal level, in_proximity and is_threatened are
\* still produced for every installation.
C21_NoMotionNoEta ==
    (/\ calc.called = "calculate_all_ports"
     /\ ~HasMotion(calc.movement_dir, calc.movement_speed))
    => \A i \in 1..Len(PORTS) :
          /\ PORTS[i] \in DOMAIN calc.port_status
          /\ LET status == calc.port_status[PORTS[i]]
             IN  /\ status.eta_hours = None
                 /\ {"distance_km", "tcws", "in_proximity", "is_threatened"}
                       \subseteq DOMAIN status
                 /\ status.distance_km >= 0
                 /\ status.in_proximity \in BOOLEAN
                 /\ status.is_threatened \in BOOLEAN

\* NORTHWEST at 20 km/h towards terminals 700 km to the north-west: no ETA,
\* though the same call with NW has one; Bauan still gets its signal.
C21_Witness ==
    /\ calc.called = "calculate_all_ports"
    /\ calc.movement_dir = NORTHWEST
    /\ calc.movement_speed = 20
    /\ calc.port_bearing["SBITC"] = 630
    /\ calc.distance["SBITC"] = 70000
    /\ calc.port_status["SBITC"].eta_hours = None
    /\ calc.port_status["SBITC"].in_proximity
    /\ calc.port_status["Bauan"].tcws = 2

\* The angle between heading and bearing, normalised to 0..180 degrees.
AngularDifference(movement_bearing, port_bearing) ==
    LET d == (movement_bearing - port_bearing) % 720
    IN  IF d <= 720 - d THEN d ELSE 720 - d

\* C22: calculate_eta returns none whenever the normalised angular difference
\* between the heading and the bearing to the installation exceeds 90
\* degrees, whatever the speed; an ETA is present only when it is at most 90.
C22_NoEtaWhenMovingAway ==
    calc.called = "calculate_eta" =>
        /\ (/\ HasMotion(calc.movement_dir, calc.movement_speed)
            /\ AngularDifference(DIRECTIONS(upper(calc.movement_dir)),
                                 calc.port_bearing) > 180)
           => calc.eta = None
        /\ calc.eta # None
           => /\ HasMotion(calc.movement_dir, calc.movement_speed)
              /\ AngularDifference(DIRECTIONS(upper(calc.movement_dir)),
                                   calc.port_bearing) <= 180

\* Heading N, installation at 269.5 degrees: 90.5 degrees apart across the
\* seam, 700 km away at 20 km/h, and no ETA.
C22_Witness ==
    /\ calc.called = "calculate_eta"
    /\ calc.movement_dir = <<"N">>
    /\ calc.movement_speed = 20
    /\ calc.port_bearing = 539
    /\ calc.distance = 70000
    /\ calc.eta = None

\* C23: calculate_eta never returns more than 72 hours; when the distance
\* over the effective closing speed exceeds 72 the result is none.
C23_EtaAtMost72h ==
    calc.called = "calculate_eta" =>
        /\ calc.eta # None => calc.eta <= 7200
        /\ (/\ HasMotion(calc.movement_dir, calc.movement_speed)
            /\ LET a == AngularDifference(DIRECTIONS(upper(calc.movement_dir)),
                                          calc.port_bearing)
               IN  /\ a < 180
                   /\ calc.distance * 100
                        > 72 * calc.movement_speed * CosE4[a + 1])
           => calc.eta = None

\* Head-on at 20 km/h from 1440.1 km: 72.005 hours, no ETA.
C23_Witness ==
    /\ calc.called = "calculate_eta"
    /\ calc.movement_dir = NW
    /\ calc.port_bearing = 630
    /\ calc.movement_speed = 20
    /\ calc.distance = 144010
    /\ calc.eta = None

----------------------------------------------------------------------------
(* haversine_distance on whole-degree coordinates around the Philippines. *)
(* The trigonometric functions are tables of the values the code's calls  *)
(* return, scaled to integers; the result is in whole km.                 *)

EARTH_RADIUS_KM == 6371

\* 10^6 * sin(radians(d) / 2) ** 2 for d = -7..7 degrees.
Sin2HalfE6 ==
    <<
    3727, 2739, 1903, 1218, 685, 305, 76, 0, 76, 305,
    685, 1218, 1903, 2739, 3727
    >>

sin_half_squared(d) == Sin2HalfE6[d + 8]

\* 1000 * cos(radians(lat)) for lat = 0..20 degrees.
CosE3 ==
    <<
    1000, 1000, 999, 999, 998, 996, 995, 993, 990, 988,
    985, 982, 978, 974, 970, 966, 961, 956, 951, 946,
    940
    >>

cos_lat(lat) == CosE3[lat + 1]

\* 10^6 * asin(s / 1000) for s = 0..80.
AsinE6 ==
    <<
    0, 1000, 2000, 3000, 4000, 5000, 6000, 7000, 8000, 9000,
    10000, 11000, 12000, 13000, 14000, 15001, 16001, 17001, 18001, 19001,
    20001, 21002, 22002, 23002, 24002, 25003, 26003, 27003, 28004, 29004,
    30005, 31005, 32005, 33006, 34007, 35007, 36008, 37008, 38009, 39010,
    40011, 41011, 42012, 43013, 44014, 45015, 46016, 47017, 48018, 49020,
    50021, 51022, 52023, 53025, 54026, 55028, 56029, 57031, 58033, 59034,
    60036, 61038, 62040, 63042, 64044, 65046, 66048, 67050, 68053, 69055,
    70057, 71060, 72062, 73065, 74068, 75070, 76073, 77076, 78079, 79082,
    80086
    >>

\* sqrt(a) to three decimals, a in millionths.
isqrt(n) == CHOOSE s \in 0..80 : s * s <= n /\ (s + 1) * (s + 1) > n

haversine_a_one_latitude(lat1, lon1, lat2, lon2) ==
    sin_half_squared(lat2 - lat1)
      + (((cos_lat(lat1) * cos_lat(lat1)) \div 1000)
           * sin_half_squared(lon2 - lon1)) \div 1000

\* Line 87: a = sin(dlat/2)**2 + cos(lat1) * cos(lat2) * sin(dlon/2)**2
haversine_a(lat1, lon1, lat2, lon2) ==
    sin_half_squared(lat2 - lat1)
      + (((cos_lat(lat1) * cos_lat(lat2)) \div 1000)
           * sin_half_squared(lon2 - lon1)) \div 1000

\* Lines 88-90: EARTH_RADIUS_KM * 2 * asin(sqrt(a))
haversine_distance(lat1, lon1, lat2, lon2) ==
    (EARTH_RADIUS_KM * 2 * AsinE6[isqrt(haversine_a(lat1, lon1, lat2, lon2)) + 1])
        \div 1000000

\* Storm and terminal positions, whole degrees north and east.
Latitudes == {8, 11, 14, 15}

Longitudes == {120, 121, 123, 125}

HaversineDistance ==
    /\ calc.called = "none"
    /\ \E lat1 \in Latitudes, lon1 \in Longitudes,
          lat2 \in Latitudes, lon2 \in Longitudes :
          calc' = [called |-> "haversine_distance",
                   lat1 |-> lat1, lon1 |-> lon1, lat2 |-> lat2, lon2 |-> lon2,
                   distance |-> haversine_distance(lat1, lon1, lat2, lon2)]
    /\ UNCHANGED <<now, threatFile, cacheFile, archiveFile, statusFile,
                   eqCacheFile, run, lastFull, appended, statusTimes>>

SpecHaversine == InitSignal /\ [][HaversineDistance]_vars

\* C24: haversine_distance is non-negative, the same in both directions, and
\* zero between a point and itself.
C24_DistanceSymmetricZero ==
    calc.called = "haversine_distance" =>
        /\ calc.distance >= 0
        /\ calc.distance
             = haversine_distance(calc.lat2, calc.lon2, calc.lat1, calc.lon1)
        /\ (calc.lat1 = calc.lat2 /\ calc.lon1 = calc.lon2) => calc.distance = 0

\* From 8N 125E to 15N 120E: two points apart in both coordinates, with the
\* same distance back.
C24_Witness ==
    /\ calc.called = "haversine_distance"
    /\ calc.lat1 = 8 /\ calc.lon1 = 125
    /\ calc.lat2 = 15 /\ calc.lon2 = 120
    /\ calc.distance > 900
    /\ calc.distance
         = haversine_distance(calc.lat2, calc.lon2, calc.lat1, calc.lon1)

----------------------------------------------------------------------------
(* C25: no second alert for the same bulletin *)

\* C25: once the cache holds an alerted bulletin, a full cycle whose reading
\* has the same bulletin_time, the same signal levels and the same ETAs sends
\* no alert and leaves the cache and the archive as they are, however often
\* it is repeated.
C25_SameBulletinNoAlert ==
    [][(/\ now' = now
        /\ run'.outcome = "full"
        /\ run'.has_reading
        /\ cacheFile.kind = "json"
        /\ run'.bulletin_data.bulletin_time = cacheFile.data.bulletin_time
        /\ \A p \in PortSet :
              /\ run'.bulletin_data.port_status[p].tcws
                    = cacheFile.data.port_status[p].tcws
              /\ run'.bulletin_data.port_status[p].eta_hours
                    = cacheFile.data.port_status[p].eta_hours)
       => /\ run'.alert = "no"
          /\ cacheFile' = cacheFile
          /\ archiveFile' = archiveFile]_vars

\* A cycle that saw again the bulletin alerted by an earlier cycle and stayed
\* quiet; the archive holds the one entry of that alert.
C25_Witness ==
    /\ run.outcome = "full"
    /\ run.has_reading
    /\ run.alert = "no"
    /\ cacheFile = Json(run.bulletin_data)
    /\ Len(appended) = 1
    /\ archiveFile = Json(appended)

----------------------------------------------------------------------------
(* C26: a skipped invocation *)

\* C26: an invocation that should_skip_run skips leaves the threat flag, the
\* snapshot cache, the archive, the status mark and the earthquake cache
\* unchanged, obtains no reading and sends no alert, status update or
\* earthquake alert.
C26_SkippedChangesNothing ==
    [][(now' = now /\ run'.outcome = "skipped")
         => /\ threatFile' = threatFile
            /\ cacheFile' = cacheFile
            /\ archiveFile' = archiveFile
            /\ statusFile' = statusFile
            /\ eqCacheFile' = eqCacheFile
            /\ statusTimes' = statusTimes
            /\ ~run'.has_reading
            /\ run'.alert = "none"
            /\ ~run'.status_sent
            /\ run'.eq = "none"]_vars

\* A skipped invocation at an odd hour after a cycle that had alerted and
\* cleared nothing: the cache, the archive and the flag are all on disk.
C26_Witness ==
    /\ run.outcome = "skipped"
    /\ Odd(run.hour)
    /\ cacheFile.kind = "json"
    /\ archiveFile.kind = "json"
    /\ threatFile = Json(ThreatRecord(FALSE))

----------------------------------------------------------------------------
(* C27: a full cycle without a weather reading *)

\* C27: a full cycle that obtains no reading writes the threat flag false,
\* sends no threat alert and leaves the snapshot cache and the archive
\* unchanged; so the next invocation at an odd hour without override is
\* skipped, whatever the flag was before that cycle.
C27_NoReadingClearsFlag ==
    /\ [][(now' = now /\ run'.outcome = "full" /\ ~run'.has_reading)
            => /\ threatFile' = Json(ThreatRecord(FALSE))
               /\ run'.alert = "none"
               /\ cacheFile' = cacheFile
               /\ archiveFile' = archiveFile]_vars
    /\ [][(/\ now' = now
           /\ lastFull.happened
           /\ ~lastFull.has_reading
           /\ Odd(HourOf(now))
           /\ ~run'.force)
          => run'.outcome = "skipped"]_vars

\* An odd-hour invocation skipped after a cycle without a reading, while the
\* cache still holds the signal-2 bulletin that had raised the flag.
C27_Witness ==
    /\ run.outcome = "skipped"
    /\ Odd(run.hour)
    /\ lastFull.happened
    /\ ~lastFull.has_reading
    /\ cacheFile.kind = "json"
    /\ \E p \in PortSet : cacheFile.data.port_status[p].tcws = 2
    /\ threatFile = Json(ThreatRecord(FALSE))

----------------------------------------------------------------------------
(* Cycles in which the Telegram delivery may fail and the archive file may *)
(* be unreadable.                                                          *)

NotifyReadings ==
    {NoReading,
     Reading(Bulletin(1, PortStatus(Status(1, 100), EmptyStatus))),
     Reading(Bulletin(2, PortStatus(Status(2, 50), Status(1, None))))}

InitNotify ==
    /\ now = 0
    /\ threatFile = Missing
    /\ cacheFile = Missing
    /\ archiveFile \in {Missing, Corrupt}
    /\ statusFile = Missing
    /\ eqCacheFile = Missing
    /\ run = NoRun
    /\ lastFull = [happened |-> FALSE, has_reading |-> FALSE,
                   port_status |-> NullBulletin.port_status]
    /\ appended = << >>
    /\ statusTimes = {}
    /\ calc = NoCalc

CycleNotify ==
    \E pagasa_data \in NotifyReadings, delivered \in BOOLEAN :
        main("unset", pagasa_data, << >>, delivered)

NextNotify == CycleNotify \/ Tick

SpecNotify == InitNotify /\ [][NextNotify]_vars

\* C28: on a notify decision the alert is sent, then the cache is saved, then
\* the archive is appended: the cache is written whenever send_alert returns,
\* delivered or not, the archive after it (a failing append leaves the cache
\* already written); so after a failed delivery the same bulletin in the next
\* cycle produces no alert.
C28_WrittenEvenIfUndelivered ==
    /\ [][(now' = now /\ run'.alert = "yes")
            => /\ cacheFile' = Json(run'.bulletin_data)
               /\ IF run'.outcome = "full"
                  THEN load_archive(archiveFile')
                          = Append(load_archive(archiveFile),
                                   ArchiveEntry(now, run'.bulletin_data))
                  ELSE run'.outcome = "failed" /\ archiveFile' = archiveFile]_vars
    /\ [][(/\ now' = now
           /\ run.alert = "yes"
           /\ ~run.delivered
           /\ run'.outcome = "full"
           /\ run'.has_reading
           /\ run'.bulletin_data = run.bulletin_data)
          => run'.alert = "no"]_vars

\* An alert whose delivery failed, with the bulletin in the cache and in the
\* archive all the same.
C28_Witness ==
    /\ run.outcome = "full"
    /\ run.alert = "yes"
    /\ ~run.delivered
    /\ cacheFile = Json(run.bulletin_data)
    /\ Len(appended) = 1
    /\ appended[1].data = run.bulletin_data
    /\ archiveFile = Json(appended)

----------------------------------------------------------------------------
(* Cycles while a Low Pressure Area sits unchanged on the weather page. *)

lpa_bulletin_time_fixed(t) == 0

\* Line 209: bulletin_time is datetime.now() of the fetch, not an issue time.
lpa_bulletin_time(t) == t

\* The reading _check_weather_page_lpa returns at clock time t: no movement
\* and an empty tcws_areas, hence no signal level and no ETA at any terminal.
LPABulletin(t) ==
    Bulletin(lpa_bulletin_time(t), PortStatus(EmptyStatus, EmptyStatus))

CycleLPA ==
    \E env \in MainEnv, all_earthquakes \in EqFeeds,
       pagasa_data \in {NoReading, Reading(LPABulletin(now))} :
        main(env, pagasa_data, all_earthquakes, TRUE)

NextLPA == CycleLPA \/ Tick

SpecLPA == Init /\ [][NextLPA]_vars

\* C29: a full cycle that reads the LPA at another clock time than the cycle
\* that last alerted sends an alert again, the port statuses being the same;
\* and an LPA reading never sets the threat flag.
C29_LPAAlertsEveryCycle ==
    /\ [][(/\ now' = now
           /\ run'.outcome = "full"
           /\ run'.has_reading
           /\ appended # << >>
           /\ appended[Len(appended)].timestamp # now)
          => /\ run'.alert = "yes"
             /\ run'.bulletin_data.port_status
                   = appended[Len(appended)].data.port_status
             /\ run'.bulletin_data.bulletin_time
                   # appended[Len(appended)].data.bulletin_time]_vars
    /\ [](~FlagIsTrue(threatFile))
    /\ [](run.has_reading => ~run.has_elevated_threat)

\* Two alerts for the same LPA, an hour apart.
C29_Witness ==
    /\ Len(appended) = 2
    /\ appended[1].data.port_status = appended[2].data.port_status
    /\ appended[1].data.bulletin_time # appended[2].data.bulletin_time
    /\ run.alert = "yes"
    /\ threatFile = Json(ThreatRecord(FALSE))

----------------------------------------------------------------------------
(* C30: the earthquake cache and the earthquake alerts *)

\* The event is the one the readable cache holds: same timestamp token and
\* location, magnitude within 0.1.
SameAsCached(quake, file) ==
    /\ file.kind = "json"
    /\ DOMAIN file.data # {}
    /\ quake.datetime_str = file.data.datetime_str
    /\ quake.location = file.data.location
    /\ Abs(quake.magnitude - file.data.magnitude) <= 1

\* C30: the earthquake cache is written exactly when an earthquake alert is
\* sent and then holds the alerted event; a significant event that is the
\* cached one is not alerted again; one that differs from the cached event
\* (a new event, or A again after B was alerted) is alerted and cached.
C30_QuakeCacheTracksAlerts ==
    /\ [][(eqCacheFile' # eqCacheFile)
            => (run'.eq = "sent" /\ eqCacheFile' = Json(run'.quake))]_vars
    /\ [][(run'.outcome = "decided" /\ run'.quake # NoQuake
             /\ SameAsCached(run'.quake, eqCacheFile))
            => run'.eq = "already"]_vars
    /\ [][(/\ run'.outcome = "decided"
           /\ run'.quake # NoQuake
           /\ ~load_raises(eqCacheFile)
           /\ \/ DOMAIN load_cache(eqCacheFile) = {}
              \/ /\ DOMAIN load_cache(eqCacheFile) # {}
                 /\ \/ run'.quake.datetime_str # eqCacheFile.data.datetime_str
                    \/ run'.quake.location # eqCacheFile.data.location)
          => (run'.eq = "sent" /\ eqCacheFile' = Json(run'.quake))]_vars

====
